---- MODULE Spec2Model ----
(***************************************************************************)
(* Model of the planner service: the Persistence Gateway (MongoDB class),   *)
(* the Plan Synthesizer and Task Refiner (PlannerAgent) and the HTTP        *)
(* routes that drive them.                                                  *)
(*                                                                          *)
(* An LLM response text is a sequence of lexical chunks ("tokens"):         *)
(*   "{" "}" "[" "]"   the JSON brackets, one character each                *)
(*   " "               a run of whitespace                                  *)
(*   "t"               a run of prose holding no bracket (not JSON)         *)
(*   "s" "S"           a JSON string: "s" names no plan field, "S" spells   *)
(*                     the names of all four required fields                *)
(*   "a" "e"           the object members "project_summary": "..." and      *)
(*                     "error": "..."                                       *)
(*   "n" "n2"          the members "task_name": ..., "description": ... of  *)
(*                     a task ("n2": under another name)                    *)
(*   "m" "u"           the string members of a milestone, of a subtask      *)
(*   "b:" "c:" "d:" "deps:" "subs:"   an object key and its colon, the      *)
(*                     value follows: key_features_deliverables,            *)
(*                     major_milestones, high_level_tasks, dependencies,    *)
(*                     subtasks                                             *)
(* Commas are part of the tokens; no token but "{" "}" "[" "]" holds a      *)
(* bracket.                                                                 *)
(***************************************************************************)
EXTENDS Integers, Sequences, FiniteSets, TLC

\* ------------------------------------------------------------------ bounds
MaxClock == 1
MaxLen == 4
MaxRequests == 2

\* ------------------------------------------------------- program constants
MaxAttempts == 3

\* --------------------------------------------------------------- str model
Whitespace == {" "}

RECURSIVE lstrip(_)
lstrip(s) ==
    IF s # <<>> /\ Head(s) \in Whitespace THEN lstrip(Tail(s)) ELSE s

RECURSIVE rstrip(_)
rstrip(s) ==
    IF s # <<>> /\ s[Len(s)] \in Whitespace
    THEN rstrip(SubSeq(s, 1, Len(s) - 1))
    ELSE s

\* str.strip()
strip(s) == rstrip(lstrip(s))

\* str.startswith(ch)
startswith(s, ch) == s # <<>> /\ s[1] = ch

\* str.find(ch): the lowest index of ch, 1-based; 0 stands for Python's -1
find(s, ch) ==
    IF \E i \in 1..Len(s) : s[i] = ch
    THEN CHOOSE i \in 1..Len(s) : s[i] = ch /\ \A j \in 1..(i - 1) : s[j] # ch
    ELSE 0

\* str.rfind(ch): the highest index of ch, 1-based; 0 stands for Python's -1
rfind(s, ch) ==
    IF \E i \in 1..Len(s) : s[i] = ch
    THEN CHOOSE i \in 1..Len(s) : s[i] = ch /\ \A j \in (i + 1)..Len(s) : s[j] # ch
    ELSE 0

\* s[start:end+1] for 0-based start, end, here 1-based inclusive
slice(s, start, end) == SubSeq(s, start, end)

\* ------------------------------------------------------------- json values
\* What json.loads returns: a dict (members: key -> value), a list (items) or
\* a str (val: its words).
JDict(m) == [type |-> "dict", members |-> m, items |-> <<>>, val |-> <<>>]
JList(l) == [type |-> "list", members |-> <<>>, items |-> l, val |-> <<>>]
JStr(v) == [type |-> "str", members |-> <<>>, items |-> <<>>, val |-> v]

\* dict.update / MongoDB $set: the fields of d2 written over d1
Merge(d1, d2) ==
    [k \in (DOMAIN d1) \cup (DOMAIN d2) |-> IF k \in DOMAIN d2 THEN d2[k] ELSE d1[k]]

\* dict.get(k, default)
Get(d, k, default) == IF k \in DOMAIN d THEN d[k] ELSE default

required_fields ==
    <<"project_summary", "key_features_deliverables", "major_milestones",
      "high_level_tasks">>

\* -------------------------------------------------------------- json model
StringTokens == {"s", "S"}
MemberTokens == {"a", "e", "n", "n2", "m", "u"}
KeyTokens == {"b:", "c:", "d:", "deps:", "subs:"}

\* The string a string token stands for
TokenString(tok) == IF tok = "S" THEN JStr(required_fields) ELSE JStr(<<"text">>)

\* The members a member token stands for
TokenMembers(tok) ==
    CASE tok = "a" -> [project_summary |-> JStr(<<"summary">>)]
      [] tok = "e" -> [error |-> JStr(<<"error">>)]
      [] tok = "n" -> [task_name |-> JStr(<<"task">>), description |-> JStr(<<"desc">>)]
      [] tok = "n2" -> [task_name |-> JStr(<<"renamed">>), description |-> JStr(<<"desc">>)]
      [] tok = "m" -> [name |-> JStr(<<"milestone">>), timeline |-> JStr(<<"week">>)]
      [] tok = "u" -> [name |-> JStr(<<"subtask">>), description |-> JStr(<<"desc">>),
                       effort |-> JStr(<<"effort">>)]
      [] OTHER -> <<>>

\* The key a key token stands for
TokenKey(tok) ==
    CASE tok = "b:" -> "key_features_deliverables"
      [] tok = "c:" -> "major_milestones"
      [] tok = "d:" -> "high_level_tasks"
      [] tok = "deps:" -> "dependencies"
      [] OTHER -> "subtasks"

\* The decoder's answer: ok, the position after what it read, the value read
Decoded(next, value) == [ok |-> TRUE, next |-> next, value |-> value]
JSONDecodeError == [ok |-> FALSE, next |-> 0, value |-> JStr(<<>>)]

\* json.JSONDecoder: the value starting at s[j]; the members of an object up
\* to its "}" (acc: the ones read, a later key replacing an earlier one); the
\* elements of an array up to its "]"
RECURSIVE DecodeValue(_, _), DecodeMembers(_, _, _), DecodeElements(_, _, _)
DecodeValue(s, j) ==
    IF j > Len(s) THEN JSONDecodeError
    ELSE IF s[j] \in Whitespace THEN DecodeValue(s, j + 1)
    ELSE IF s[j] \in StringTokens THEN Decoded(j + 1, TokenString(s[j]))
    ELSE IF s[j] = "{" THEN DecodeMembers(s, j + 1, <<>>)
    ELSE IF s[j] = "[" THEN DecodeElements(s, j + 1, <<>>)
    ELSE JSONDecodeError

DecodeMembers(s, j, acc) ==
    IF j > Len(s) THEN JSONDecodeError
    ELSE IF s[j] \in Whitespace THEN DecodeMembers(s, j + 1, acc)
    ELSE IF s[j] = "}" THEN Decoded(j + 1, JDict(acc))
    ELSE IF s[j] \in MemberTokens
         THEN DecodeMembers(s, j + 1, Merge(acc, TokenMembers(s[j])))
    ELSE IF s[j] \in KeyTokens
         THEN LET v == DecodeValue(s, j + 1)
              IN IF v.ok
                 THEN DecodeMembers(s, v.next, Merge(acc, TokenKey(s[j]) :> v.value))
                 ELSE JSONDecodeError
    ELSE JSONDecodeError

DecodeElements(s, j, acc) ==
    IF j > Len(s) THEN JSONDecodeError
    ELSE IF s[j] \in Whitespace THEN DecodeElements(s, j + 1, acc)
    ELSE IF s[j] = "]" THEN Decoded(j + 1, JList(acc))
    ELSE LET v == DecodeValue(s, j)
         IN IF v.ok THEN DecodeElements(s, v.next, Append(acc, v.value))
            ELSE JSONDecodeError

\* json.loads(s): one value, whitespace around it allowed, nothing after it
json_loads(s) ==
    LET v == DecodeValue(s, 1)
    IN IF v.ok /\ \A i \in v.next..Len(s) : s[i] \in Whitespace
       THEN v
       ELSE JSONDecodeError

\* ------------------------------------------------------------- identifiers
ValidIds == {"p1", "p2"}
InvalidIds == {"bad"}
PathIds == ValidIds \cup InvalidIds

\* bson.ObjectId(project_id) does not raise InvalidId
ObjectIdValid(id) == id \in ValidIds

Reqs == {1, 2}

VARIABLES
    dbReady,        \* MongoDB.db is not None
    clock,          \* datetime.utcnow()
    projects,       \* db.projects: _id -> document, for the ids that exist
    project_plans,  \* db.project_plans: the documents, in insertion order
    req,            \* per request slot: the handler running in it and its locals
    last,           \* the latest answer: of which handler, and its status and body
    lifecycle,      \* history: per project id, the operation that last wrote its plan
    nreq,           \* history: the number of requests and calls started
    hist            \* history: the outcomes of the LLM invocations of a direct call,
                    \* the answers of the project writes

vars == <<dbReady, clock, projects, project_plans, req, last, lifecycle, nreq, hist>>

\* --------------------------------------------------------- project_plans
\* find_one({"project_id": pid}): the index of the first match, 0 for None
find_one(coll, pid) ==
    IF \E i \in 1..Len(coll) : coll[i].project_id = pid
    THEN CHOOSE i \in 1..Len(coll) :
            coll[i].project_id = pid /\ \A j \in 1..(i - 1) : coll[j].project_id # pid
    ELSE 0

\* The document an upsert inserts when nothing matches: the filter's field, the
\* $set fields and a store-generated _id (unless $set brings one).
UpsertDoc(coll, pid, set) ==
    Merge([_id |-> <<"plan", Len(coll) + 1>>, project_id |-> pid], set)

\* A mutation of update_one: the collection is replaced by the written document
update_one_replace_all(coll, pid, set, inserting) ==
    [ok |-> TRUE, pending |-> FALSE, coll |-> <<UpsertDoc(<<>>, pid, set)>>]

\* update_one({"project_id": pid}, {"$set": set}, upsert=True), as the server
\* runs it: it looks for a match and updates it in one step (ok is FALSE when
\* the write is refused: _id is immutable); when nothing matches, the insert is
\* a second step (pending), and it inserts whatever was stored meanwhile:
\* project_plans has no unique index on project_id.
update_one(coll, pid, set, inserting) ==
    LET i == find_one(coll, pid)
    IN IF inserting
       THEN [ok |-> TRUE, pending |-> FALSE,
             coll |-> Append(coll, UpsertDoc(coll, pid, set))]
       ELSE IF i = 0 THEN [ok |-> TRUE, pending |-> TRUE, coll |-> coll]
       ELSE IF "_id" \in DOMAIN set /\ set["_id"] # coll[i]["_id"]
            THEN [ok |-> FALSE, pending |-> FALSE, coll |-> coll]
            ELSE [ok |-> TRUE, pending |-> FALSE,
                  coll |-> [coll EXCEPT ![i] = Merge(@, set)]]

\* MongoDB.store_project_plan, up to its await: the plan as it is written
StampPlan(plan, now) ==
    LET p == Merge(plan, [updated_at |-> now])
    IN IF "created_at" \notin DOMAIN p THEN Merge(p, [created_at |-> p.updated_at]) ELSE p

\* ------------------------------------------------------------- exceptions
\* The exceptions chain.ainvoke raises: openai's (all of them subclasses of
\* openai.APIError) and one that is not the provider's.
OpenAIErrors ==
    {"RateLimitError", "InternalServerError", "AuthenticationError", "BadRequestError"}
LLMErrors == OpenAIErrors \cup {"TimeoutError"}

\* isinstance(e, (RateLimitError, APIError))
retry_if_exception_type(e) == e = "RateLimitError" \/ e \in OpenAIErrors

\* A mutation of stop_after_attempt: one attempt more
stop_after_attempt_4(attempt_number) == attempt_number >= MaxAttempts + 1

\* stop_after_attempt(3)
stop_after_attempt(attempt_number) == attempt_number >= MaxAttempts

\* tenacity's decision after attempt `attempt_number` raised e
call_with_retry(e, attempt_number) ==
    IF ~retry_if_exception_type(e) THEN "reraise"
    ELSE IF stop_after_attempt(attempt_number) THEN "RetryError"
    ELSE "retry"

\* wait_exponential(multiplier=1, min=4, max=60), in seconds
multiplier == 1
wait_min == 4
wait_max == 60

Min(a, b) == IF a <= b THEN a ELSE b
Max(a, b) == IF a >= b THEN a ELSE b

\* tenacity's wait before the attempt that follows attempt `attempt_number`:
\* multiplier * 2^(attempt_number - 1), kept between min and max
wait_exponential(attempt_number) ==
    Max(Max(0, wait_min), Min(multiplier * 2 ^ (attempt_number - 1), wait_max))

Exc(type, text) == [type |-> type, text |-> text, fields |-> <<>>]

\* The exception types of the model, every one a subclass of Exception
ExceptionTypes ==
    LLMErrors \cup {"RetryError", "ValueError", "KeyError", "AttributeError",
                    "TypeError", "HTTPException", "PyMongoError", "WriteError"}

\* A mutation of except_Exception: `except ValueError`
except_ValueError(e) == e = "ValueError"

\* `except Exception as e` catches an exception of type e
except_Exception(e) == e \in ExceptionTypes

\* ------------------------------------------------------- Plan Synthesizer
\* `field in plan_json`: a key of a dict, an element of a list, a substring of
\* a str
Contains(plan_json, field) ==
    CASE plan_json.type = "dict" -> field \in DOMAIN plan_json.members
      [] plan_json.type = "list" ->
            \E i \in 1..Len(plan_json.items) : plan_json.items[i] = JStr(<<field>>)
      [] OTHER -> \E i \in 1..Len(plan_json.val) : plan_json.val[i] = field

\* A mutation of missing_fields: the first missing field only
missing_fields_first(plan_json) ==
    LET all == SelectSeq(required_fields, LAMBDA field : ~Contains(plan_json, field))
    IN IF all = <<>> THEN <<>> ELSE <<all[1]>>

missing_fields(plan_json) ==
    SelectSeq(required_fields, LAMBDA field : ~Contains(plan_json, field))

\* A mutation of cleaned_response: no repair
cleaned_response_strip(response, open) == strip(response)

Closer(open) == IF open = "{" THEN "}" ELSE "]"

\* planner.py 129-135, 249-254: the repair step for a bracket pair
cleaned_response(response, open) ==
    LET stripped == strip(response)
        start == find(stripped, open)
        end == rfind(stripped, Closer(open))
    IN IF ~startswith(stripped, open) /\ start # 0 /\ end # 0
       THEN slice(stripped, start, end)
       ELSE stripped

NoParse == [ok |-> FALSE, plan |-> JStr(<<>>), error |-> Exc("", "")]

\* planner.py 125-156: parse and validate the response
SynthParse(response) ==
    IF response = <<>>
    THEN [NoParse EXCEPT !.error = Exc("ValueError", "Invalid response format")]
    ELSE LET cleaned == cleaned_response(response, "{")
             loaded == json_loads(cleaned)
         IN IF ~loaded.ok
            THEN [NoParse EXCEPT !.error = Exc("ValueError", "Invalid JSON response from LLM")]
            ELSE LET plan_json == loaded.value
                     missing == missing_fields(plan_json)
                 IN IF missing # <<>>
                    THEN [NoParse EXCEPT
                            !.error = [type |-> "ValueError",
                                       text |-> "Missing required fields in plan",
                                       fields |-> missing]]
                    ELSE [NoParse EXCEPT !.ok = TRUE, !.plan = plan_json]

\* ------------------------------------------------------------ Task Refiner
\* planner.py 247-257, 276-278: parse the response
RefineParse(response) ==
    LET cleaned == cleaned_response(response, "[")
        loaded == json_loads(cleaned)
    IN IF ~loaded.ok
       THEN [ok |-> FALSE, refined_tasks |-> JList(<<>>),
             error |-> Exc("ValueError", "Invalid JSON response for refined tasks")]
       ELSE [ok |-> TRUE, refined_tasks |-> loaded.value, error |-> Exc("", "")]

\* ---------------------------------------------------------------- requests
NoResult == [status |-> 0, raised |-> FALSE, body |-> <<>>]

IdleReq ==
    [kind |-> "none", id |-> "", pc |-> "idle", calls |-> 0, plan |-> <<>>,
     tasks |-> JList(<<>>), title |-> "", has_id |-> TRUE, inserting |-> FALSE,
     docs |-> <<>>, wait |-> 0, result |-> NoResult]

\* The handler of q has answered: an HTTP status and body
Respond(q, status, body) ==
    [IdleReq EXCEPT !.kind = q.kind, !.id = q.id, !.pc = "done", !.calls = q.calls,
                    !.result = [status |-> status, raised |-> FALSE, body |-> body]]

\* raise HTTPException(status_code=status, detail=detail)
HTTPError(q, status, detail) == Respond(q, status, [detail |-> detail])

\* A planner method called directly has returned value, or raised
Returned(q, value) ==
    [IdleReq EXCEPT !.kind = q.kind, !.id = q.id, !.pc = "done", !.calls = q.calls,
                    !.result = [status |-> 0, raised |-> FALSE, body |-> value]]
Raised(q, e) ==
    [IdleReq EXCEPT !.kind = q.kind, !.id = q.id, !.pc = "done", !.calls = q.calls,
                    !.result = [status |-> 0, raised |-> TRUE, body |-> [error |-> e]]]

DbNotInitialized == "Database connection not initialized"

NoAnswer ==
    [r |-> 0, kind |-> "none", id |-> "", calls |-> 0, result |-> NoResult]

\* The handler in slot r runs on to q: its next await, or its answer, which
\* frees the slot
Step(r, q) ==
    LET nq == q
    IN IF nq.pc = "done"
       THEN /\ req' = [req EXCEPT ![r] = IdleReq]
            /\ last' = [r |-> r, kind |-> nq.kind, id |-> nq.id, calls |-> nq.calls,
                        result |-> nq.result]
       ELSE /\ req' = [req EXCEPT ![r] = nq]
            /\ UNCHANGED last

\* routes.py 170-187: the plan route after generate_project_plan returned plan,
\* up to the await inside its own store_project_plan
RouteAfterGenerate(q, plan, now, ready) ==
    IF "error" \in DOMAIN plan
    THEN HTTPError(q, 500, Get(plan, "message", "Failed to generate plan"))
    ELSE IF ~ready THEN HTTPError(q, 500, DbNotInitialized)
    ELSE [q EXCEPT
            !.pc = "route_store",
            !.inserting = FALSE,
            !.plan = StampPlan(
                [project_summary |->
                     Get(plan, "project_summary", JStr(<<"Project summary to be determined">>)),
                 key_features_deliverables |->
                     Get(plan, "key_features_deliverables", JList(<<>>)),
                 major_milestones |-> Get(plan, "major_milestones", JList(<<>>)),
                 high_level_tasks |-> Get(plan, "high_level_tasks", JList(<<>>))],
                now)]

\* routes.py 248-253: the refine route after refine_project_tasks returned
RouteAfterRefine(q, refined_plan) ==
    IF "error" \in DOMAIN refined_plan
    THEN HTTPError(q, 500, Get(refined_plan, "message", "Failed to refine tasks"))
    ELSE Respond(q, 200, refined_plan)

\* A planner method returns value to its caller
PlannerReturns(q, value, now, ready) ==
    CASE q.kind = "plan" -> RouteAfterGenerate(q, value, now, ready)
      [] q.kind = "refine" -> RouteAfterRefine(q, value)
      [] OTHER -> Returned(q, value)

\* A planner method lets an exception of type e escape to its caller: the
\* routes' `except Exception` answers 500
PlannerRaises(q, e) ==
    IF q.kind \in {"plan", "refine"} THEN HTTPError(q, 500, e.text) ELSE Raised(q, e)

IsGenerate(q) == q.kind \in {"plan", "generate_call"}

FailMessage(q) ==
    IF IsGenerate(q) THEN "Failed to generate project plan."
    ELSE "Failed to refine project tasks."

\* planner.py 165-170, 280-285: an exception inside the method's try block
PlannerFails(q, e, now, ready) ==
    IF except_Exception(e.type)
    THEN PlannerReturns(q, [error |-> e, message |-> FailMessage(q)], now, ready)
    ELSE PlannerRaises(q, e)

\* A mutation of GenerateAfterResponse: a response that fails to parse is asked
\* for again, as a provider error would be
GenerateAfterResponse_retry(q, response, now, ready) ==
    LET p == SynthParse(response)
    IN IF ~p.ok /\ q.calls < MaxAttempts THEN q
       ELSE IF ~p.ok THEN PlannerFails(q, p.error, now, ready)
       ELSE [q EXCEPT !.pc = "store_plan", !.plan = StampPlan(p.plan.members, now)]

\* A mutation of GenerateAfterResponse: the plan is stored as soon as it is
\* parsed, before the required fields are looked at
GenerateAfterResponse_unvalidated(q, response, now, ready) ==
    LET p == SynthParse(response)
        loaded == json_loads(cleaned_response(response, "{"))
    IN IF ~p.ok /\ p.error.text # "Missing required fields in plan"
       THEN PlannerFails(q, p.error, now, ready)
       ELSE IF loaded.value.type # "dict"
            THEN PlannerFails(q, Exc("TypeError", "item assignment"), now, ready)
       ELSE [q EXCEPT !.pc = "store_plan", !.plan = StampPlan(loaded.value.members, now)]

\* planner.py 122-160 and mongodb.py 97-103: generate_project_plan from the
\* response to the await inside store_project_plan
GenerateAfterResponse(q, response, now, ready) ==
    LET p == SynthParse(response)
    IN IF ~p.ok THEN PlannerFails(q, p.error, now, ready)
       ELSE IF ~q.has_id THEN PlannerFails(q, Exc("KeyError", "_id"), now, ready)
       ELSE IF ~ready
            THEN PlannerFails(q, Exc("HTTPException", DbNotInitialized), now, ready)
       ELSE IF p.plan.type # "dict"
            THEN PlannerFails(q, Exc("TypeError", "item assignment"), now, ready)
       ELSE [q EXCEPT !.pc = "store_plan", !.plan = StampPlan(p.plan.members, now)]

\* planner.py 245-264: refine_project_tasks from the response to the await of
\* update_one
RefineAfterResponse(q, response, now, ready) ==
    LET p == RefineParse(response)
    IN IF ~p.ok THEN PlannerFails(q, p.error, now, ready)
       ELSE [q EXCEPT !.pc = "refine_store",
                      !.plan = Merge(q.plan, [high_level_tasks |-> p.refined_tasks,
                                              updated_at |-> now])]

\* What chain.ainvoke can do: return a text or raise
Outcomes(texts) ==
    [kind : {"ok"}, text : texts, exc : {""}]
        \cup [kind : {"raise"}, text : {<<>>}, exc : LLMErrors]

IsDirectCall(q) == q.kind \in {"generate_call", "refine_call"}

\* planner.py 110-121, 235-244: one chain.ainvoke of call_with_retry ends with
\* outcome o; the handler runs on to its next await
LLMReturn(r, o) ==
    LET q == [req[r] EXCEPT !.calls = @ + 1]
    IN /\ req[r].pc = "llm"
       /\ Step(r,
            IF o.kind = "ok"
            THEN IF IsGenerate(q)
                 THEN GenerateAfterResponse(q, o.text, clock, dbReady)
                 ELSE RefineAfterResponse(q, o.text, clock, dbReady)
            ELSE LET todo == call_with_retry(o.exc, q.calls)
                 IN CASE todo = "retry" -> [q EXCEPT !.wait = wait_exponential(q.calls)]
                      [] todo = "reraise" ->
                            PlannerFails(q, Exc(o.exc, "provider"), clock, dbReady)
                      [] OTHER ->
                            PlannerFails(q, Exc("RetryError", o.exc), clock, dbReady))
       /\ hist' = IF IsDirectCall(q) THEN Append(hist, o) ELSE hist
       /\ UNCHANGED <<dbReady, clock, projects, project_plans, lifecycle, nreq>>

\* ------------------------------------------ GET /projects/{project_id}/plan
\* Slot r is free and one more request is admitted
Admit(r) ==
    /\ req[r].pc = "idle"
    /\ nreq < MaxRequests
    /\ nreq' = nreq + 1

\* routes.py 124-136: the handler up to its first await
StartPlan(r, id) ==
    /\ Admit(r)
    /\ LET q == [IdleReq EXCEPT !.kind = "plan", !.id = id]
       IN Step(r,
            IF ~dbReady THEN HTTPError(q, 500, DbNotInitialized)
            ELSE IF ~ObjectIdValid(id) THEN HTTPError(q, 400, "Invalid project ID format")
            ELSE [q EXCEPT !.pc = "find_plan"])
    /\ UNCHANGED <<dbReady, clock, projects, project_plans, lifecycle, hist>>

\* The document without its "_id"
WithoutId(doc) == [k \in (DOMAIN doc) \ {"_id"} |-> doc[k]]

\* A mutation of PlanFindPlan: a stored plan is not returned, a new one is
\* generated
PlanFindPlan_regenerate(r, ok) ==
    /\ req[r].kind = "plan" /\ req[r].pc = "find_plan"
    /\ LET q == req[r]
       IN Step(r,
            IF ~ok THEN HTTPError(q, 500, "PyMongoError")
            ELSE [q EXCEPT !.pc = "find_project"])
    /\ UNCHANGED <<dbReady, clock, projects, project_plans, lifecycle, nreq, hist>>

\* routes.py 136-144: project_plans.find_one answers (ok) or fails
PlanFindPlan(r, ok) ==
    /\ req[r].kind = "plan" /\ req[r].pc = "find_plan"
    /\ LET q == req[r]
           i == find_one(project_plans, q.id)
       IN Step(r,
            IF ~ok THEN HTTPError(q, 500, "PyMongoError")
            ELSE IF i # 0 THEN Respond(q, 200, WithoutId(project_plans[i]))
            ELSE [q EXCEPT !.pc = "find_project"])
    /\ UNCHANGED <<dbReady, clock, projects, project_plans, lifecycle, nreq, hist>>

\* routes.py 144-168 and planner.py 45-117: projects.find_one answers, the
\* context is built (always with "_id") and generate_project_plan runs up to
\* its first chain.ainvoke
PlanFindProject(r, ok) ==
    /\ req[r].kind = "plan" /\ req[r].pc = "find_project"
    /\ LET q == req[r]
       IN Step(r,
            IF ~ok THEN HTTPError(q, 500, "PyMongoError")
            ELSE [q EXCEPT !.pc = "llm", !.has_id = TRUE])
    /\ UNCHANGED <<dbReady, clock, projects, project_plans, lifecycle, nreq, hist>>

\* The lifecycle after operation `op` wrote the plan of pid
Wrote(pid, op) ==
    IF pid \in ValidIds THEN [lifecycle EXCEPT ![pid] = op] ELSE lifecycle

\* mongodb.py 105-115 and planner.py 160-170: the update_one of the
\* Synthesizer's store_project_plan answers; generate_project_plan returns
GenerateStore(r, ok) ==
    /\ req[r].pc = "store_plan"
    /\ LET q == req[r]
           w == update_one(project_plans, q.id, q.plan, q.inserting)
       IN IF ok /\ w.pending
          THEN /\ Step(r, [q EXCEPT !.inserting = TRUE])
               /\ UNCHANGED <<project_plans, lifecycle>>
          ELSE IF ok /\ w.ok
          THEN /\ project_plans' = w.coll
               /\ lifecycle' = Wrote(q.id, "Generated")
               /\ Step(r, PlannerReturns(q, q.plan, clock, dbReady))
          ELSE /\ Step(r,
                    PlannerFails(q, Exc("PyMongoError", "update_one"), clock, dbReady))
               /\ UNCHANGED <<project_plans, lifecycle>>
    /\ UNCHANGED <<dbReady, clock, projects, nreq, hist>>

\* mongodb.py 105-115 and routes.py 187-196: the update_one of the route's own
\* store_project_plan answers
RouteStore(r, ok) ==
    /\ req[r].pc = "route_store"
    /\ LET q == req[r]
           w == update_one(project_plans, q.id, q.plan, q.inserting)
       IN IF ok /\ w.pending
          THEN /\ Step(r, [q EXCEPT !.inserting = TRUE])
               /\ UNCHANGED <<project_plans, lifecycle>>
          ELSE IF ok /\ w.ok
          THEN /\ project_plans' = w.coll
               /\ lifecycle' = Wrote(q.id, "Generated")
               /\ Step(r, Respond(q, 200, q.plan))
          ELSE /\ Step(r, HTTPError(q, 500, "PyMongoError"))
               /\ UNCHANGED <<project_plans, lifecycle>>
    /\ UNCHANGED <<dbReady, clock, projects, nreq, hist>>

\* ------------------------------------------- POST /refine-tasks/{project_id}
\* routes.py 206-222: the handler up to its first await
StartRefine(r, id) ==
    /\ Admit(r)
    /\ LET q == [IdleReq EXCEPT !.kind = "refine", !.id = id]
       IN Step(r,
            IF ~dbReady THEN HTTPError(q, 500, DbNotInitialized)
            ELSE IF ~ObjectIdValid(id) THEN HTTPError(q, 400, "Invalid project ID format")
            ELSE [q EXCEPT !.pc = "refine_find_project"])
    /\ UNCHANGED <<dbReady, clock, projects, project_plans, lifecycle, hist>>

\* routes.py 222-230: projects.find_one answers
RefineFindProject(r, ok) ==
    /\ req[r].pc = "refine_find_project"
    /\ LET q == req[r]
       IN Step(r,
            IF ~ok THEN HTTPError(q, 500, "PyMongoError")
            ELSE IF q.id \notin DOMAIN projects
                 THEN HTTPError(q, 404, "No project found")
            ELSE [q EXCEPT !.pc = "refine_find_plan",
                           !.title = Get(projects[q.id], "title", "the project")])
    /\ UNCHANGED <<dbReady, clock, projects, project_plans, lifecycle, nreq, hist>>

\* routes.py 237-243: the initial tasks made up for a project without a plan
InitialTasks(title) ==
    JList(<<JDict([task_name |-> JStr(<<"Project Setup">>),
                   description |-> JStr(<<"Initial setup for", title>>),
                   dependencies |-> JList(<<>>)])>>)

\* routes.py 230-246 and planner.py 181-183: project_plans.find_one answers,
\* the tasks to refine are chosen and refine_project_tasks runs up to its own
\* find_one
RefineFindPlan(r, ok) ==
    /\ req[r].pc = "refine_find_plan"
    /\ LET q == req[r]
           i == find_one(project_plans, q.id)
       IN Step(r,
            IF ~ok THEN HTTPError(q, 500, "PyMongoError")
            ELSE [q EXCEPT
                    !.pc = "refine_find",
                    !.title = "",
                    !.tasks = IF i # 0 /\ "high_level_tasks" \in DOMAIN project_plans[i]
                              THEN project_plans[i].high_level_tasks
                              ELSE InitialTasks(q.title)])
    /\ UNCHANGED <<dbReady, clock, projects, project_plans, lifecycle, nreq, hist>>

\* planner.py 186-191: the minimal plan made up when none is stored
MinimalPlan(project_id, tasks, now) ==
    [project_id |-> project_id, high_level_tasks |-> tasks,
     created_at |-> now, updated_at |-> now]

\* A mutation of RefineFind: the minimal plan made up for a project without a
\* plan is inserted as soon as it is made up
RefineFind_persist(r, ok) ==
    /\ req[r].pc = "refine_find"
    /\ LET q == req[r]
           i == find_one(project_plans, q.id)
           plan == IF i # 0 THEN project_plans[i] ELSE MinimalPlan(q.id, q.tasks, clock)
       IN /\ Step(r,
                IF ~ok THEN PlannerFails(q, Exc("PyMongoError", "find_one"), clock, dbReady)
                ELSE [q EXCEPT !.pc = "llm", !.plan = plan])
          /\ project_plans' =
                IF ok /\ i = 0
                THEN Append(project_plans, UpsertDoc(project_plans, q.id, plan))
                ELSE project_plans
    /\ UNCHANGED <<dbReady, clock, projects, lifecycle, nreq, hist>>

\* planner.py 183-241: the Refiner's find_one answers; the method runs up to
\* its first chain.ainvoke
RefineFind(r, ok) ==
    /\ req[r].pc = "refine_find"
    /\ LET q == req[r]
           i == find_one(project_plans, q.id)
       IN Step(r,
            IF ~ok THEN PlannerFails(q, Exc("PyMongoError", "find_one"), clock, dbReady)
            ELSE [q EXCEPT
                    !.pc = "llm",
                    !.plan = IF i # 0 THEN project_plans[i]
                             ELSE MinimalPlan(q.id, q.tasks, clock)])
    /\ UNCHANGED <<dbReady, clock, projects, project_plans, lifecycle, nreq, hist>>

\* planner.py 264-285: the Refiner's update_one answers; the method returns
RefineStore(r, ok) ==
    /\ req[r].pc = "refine_store"
    /\ LET q == req[r]
           w == update_one(project_plans, q.id, q.plan, q.inserting)
       IN IF ok /\ w.pending
          THEN /\ Step(r, [q EXCEPT !.inserting = TRUE])
               /\ UNCHANGED <<project_plans, lifecycle>>
          ELSE IF ok /\ w.ok
          THEN /\ project_plans' = w.coll
               /\ lifecycle' = Wrote(q.id, "Refined")
               /\ Step(r,
                    PlannerReturns(q, [project_id |-> q.id,
                                       refined_tasks |-> q.plan.high_level_tasks,
                                       original_tasks |-> q.tasks], clock, dbReady))
          ELSE /\ Step(r,
                    PlannerFails(q, Exc(IF ok THEN "WriteError" ELSE "PyMongoError",
                                        "update_one"), clock, dbReady))
               /\ UNCHANGED <<project_plans, lifecycle>>
    /\ UNCHANGED <<dbReady, clock, projects, nreq, hist>>

\* ---------------------------------------- the planner's methods, called directly
\* Slot r is free and no direct call was made yet
Call(r) ==
    /\ req[r].pc = "idle"
    /\ nreq = 0
    /\ nreq' = nreq + 1

\* planner.py 43-117: generate_project_plan(project_details) up to its first
\* chain.ainvoke; project_details may lack "_id"
StartGenerateCall(r, id, has_id) ==
    /\ Call(r)
    /\ Step(r,
            [IdleReq EXCEPT !.kind = "generate_call", !.id = id, !.pc = "llm",
                            !.has_id = has_id])
    /\ UNCHANGED <<dbReady, clock, projects, project_plans, lifecycle, hist>>

\* planner.py 179-183: refine_project_tasks(project_id, tasks) up to its
\* find_one; MongoDB.db.project_plans raises AttributeError when db is None
StartRefineCall(r, id, tasks) ==
    /\ Call(r)
    /\ LET q == [IdleReq EXCEPT !.kind = "refine_call", !.id = id, !.tasks = tasks]
       IN Step(r,
            IF ~dbReady
            THEN PlannerFails(q, Exc("AttributeError", "project_plans"), clock, dbReady)
            ELSE [q EXCEPT !.pc = "refine_find"])
    /\ UNCHANGED <<dbReady, clock, projects, project_plans, lifecycle, hist>>

\* ------------------------------------------------------------- db.projects
\* A reference held in a project ("user", an element of "tasks"): the str the
\* client sent, or the bson.ObjectId made of it
Plain(s) == [oid |-> FALSE, v |-> s]
Oid(s) == [oid |-> TRUE, v |-> s]

\* ObjectId.is_valid(s), for the strings clients send as references: "T" and
\* "t" are the same 24 hex digits in upper and in lower case, "x" is no ObjectId
is_valid(s) == s \in {"T", "t"}

\* ObjectId(s), for a valid s: an ObjectId prints its hex digits in lower case
ObjectId(s) == Oid("t")

\* str(ref) if isinstance(ref, ObjectId) else ref
str(ref) == Plain(ref.v)

\* mongodb.py 128, 212: ObjectId(task_id) if ObjectId.is_valid(task_id) else task_id
ToObjectId(ref) == IF ~ref.oid /\ is_valid(ref.v) THEN ObjectId(ref.v) ELSE ref

\* mongodb.py 125-142, 209-216: the references in the data of a create or an
\* update are turned into ObjectIds where they are valid
ConvertRefs(data) ==
    [k \in DOMAIN data |->
        IF k = "tasks" THEN [i \in DOMAIN data[k] |-> ToObjectId(data[k][i])]
        ELSE IF k = "user" THEN ToObjectId(data[k])
        ELSE data[k]]

\* mongodb.py 154-163, 182-197: _serialize_project, the document of project id
\* as a response holds it
serialize_project(id, project) ==
    [k \in (DOMAIN project) \cup {"_id"} |->
        IF k = "_id" THEN id
        ELSE IF k = "tasks" THEN [i \in DOMAIN project[k] |-> str(project[k][i])]
        ELSE IF k = "user" THEN str(project[k])
        ELSE project[k]]

\* A mutation of find_one_and_update: the matched document is replaced by $set
find_one_and_replace(coll, id, set) ==
    IF id \in DOMAIN coll
    THEN [found |-> TRUE, doc |-> set, coll |-> [coll EXCEPT ![id] = set]]
    ELSE [found |-> FALSE, doc |-> <<>>, coll |-> coll]

\* A mutation of find_one_and_update: upsert=True
find_one_and_upsert(coll, id, set) ==
    LET doc == IF id \in DOMAIN coll THEN Merge(coll[id], set) ELSE set
    IN [found |-> TRUE, doc |-> doc,
        coll |-> [k \in (DOMAIN coll) \cup {id} |-> IF k = id THEN doc ELSE coll[k]]]

\* projects.find_one_and_update({"_id": id}, {"$set": set},
\* return_document=AFTER): one atomic step of the server; doc is what it returns
find_one_and_update(coll, id, set) ==
    IF id \in DOMAIN coll
    THEN [found |-> TRUE, doc |-> Merge(coll[id], set),
          coll |-> [coll EXCEPT ![id] = Merge(@, set)]]
    ELSE [found |-> FALSE, doc |-> <<>>, coll |-> coll]

\* str(e) of an HTTPException: "<status_code>: <detail>"
str_HTTPException(detail) ==
    CASE detail = DbNotInitialized -> "500: Database connection not initialized"
      [] detail = "500: Database connection not initialized" ->
            "500: 500: Database connection not initialized"
      [] detail = "Failed to retrieve created project" ->
            "500: Failed to retrieve created project"
      [] detail = "500: Failed to retrieve created project" ->
            "500: 500: Failed to retrieve created project"
      [] OTHER -> "500: PyMongoError"

\* ------------------------------------------------------------ POST /projects
\* What ProjectCreate.dict(exclude_unset=True) holds: the fields the client sent
CreateInputs == {[title |-> "Website Redesign", user |-> Plain("x")]}

\* routes.py 20-26 and mongodb.py 120-149: the handler up to insert_one
StartCreate(r, data) ==
    /\ Admit(r)
    /\ LET q == [IdleReq EXCEPT !.kind = "create"]
       IN Step(r,
            IF ~dbReady
            THEN HTTPError(q, 500, str_HTTPException(str_HTTPException(DbNotInitialized)))
            ELSE [q EXCEPT !.pc = "insert",
                           !.plan = Merge(ConvertRefs(data), [created_at |-> clock,
                                                              updated_at |-> clock])])
    /\ UNCHANGED <<dbReady, clock, projects, project_plans, lifecycle, hist>>

\* The _id insert_one gives the new project
NewId == CHOOSE id \in ValidIds \ DOMAIN projects : TRUE

\* mongodb.py 149-152: insert_one answers
CreateInsert(r, ok) ==
    /\ req[r].pc = "insert"
    /\ LET q == req[r]
       IN IF ok
          THEN /\ ValidIds \ DOMAIN projects # {}
               /\ projects' = [id \in (DOMAIN projects) \cup {NewId} |->
                                  IF id = NewId THEN q.plan ELSE projects[id]]
               /\ Step(r, [q EXCEPT !.pc = "created_find", !.id = NewId])
          ELSE /\ Step(r, HTTPError(q, 500, str_HTTPException("PyMongoError")))
               /\ UNCHANGED projects
    /\ UNCHANGED <<dbReady, clock, project_plans, lifecycle, nreq, hist>>

\* mongodb.py 152-171 and routes.py 27-31: find_one of the created project answers
CreateFind(r, ok) ==
    /\ req[r].pc = "created_find"
    /\ LET q == req[r]
       IN Step(r,
            IF ~ok THEN HTTPError(q, 500, str_HTTPException("PyMongoError"))
            ELSE IF q.id \notin DOMAIN projects
                 THEN HTTPError(q, 500,
                        str_HTTPException(
                            str_HTTPException("Failed to retrieve created project")))
            ELSE Respond(q, 200, serialize_project(q.id, projects[q.id])))
    /\ UNCHANGED <<dbReady, clock, projects, project_plans, lifecycle, nreq, hist>>

\* ----------------------------------------------- PATCH /projects/{project_id}
\* What ProjectUpdate.dict(exclude_unset=True) holds: the fields the client sent
\* (none, when it sent none that ProjectUpdate knows)
UpdateInputs ==
    {<<>>, [progress |-> 40], [title |-> "Renamed", tasks |-> <<Plain("T"), Plain("x")>>]}

\* The answer of an update or a soft delete, as the history keeps it
Answered(q, status) == [kind |-> q.kind, id |-> q.id, status |-> status]

\* routes.py 270-279 and mongodb.py 202-221: the handler up to
\* find_one_and_update
StartUpdate(r, id, data) ==
    /\ Admit(r)
    /\ LET q == [IdleReq EXCEPT !.kind = "update", !.id = id]
       IN Step(r,
            IF DOMAIN data = {} THEN HTTPError(q, 400, "No update data provided")
            ELSE IF ~dbReady THEN HTTPError(q, 500, str_HTTPException(DbNotInitialized))
            ELSE IF ~ObjectIdValid(id) THEN HTTPError(q, 400, "Invalid project ID format")
            ELSE [q EXCEPT !.pc = "update_write",
                           !.plan = Merge(ConvertRefs(data), [updated_at |-> clock])])
    /\ UNCHANGED <<dbReady, clock, projects, project_plans, lifecycle, hist>>

\* mongodb.py 221-238 and routes.py 281-293: find_one_and_update answers
UpdateWrite(r, ok) ==
    /\ req[r].pc = "update_write"
    /\ LET q == req[r]
           w == find_one_and_update(projects, q.id, q.plan)
           status == IF ~ok THEN 500 ELSE IF w.found THEN 200 ELSE 404
       IN /\ projects' = IF ok THEN w.coll ELSE projects
          /\ Step(r,
                CASE status = 500 -> HTTPError(q, 500, "PyMongoError")
                  [] status = 404 -> HTTPError(q, 404, "Project not found")
                  [] OTHER -> Respond(q, 200, serialize_project(q.id, w.doc)))
          /\ hist' = Append(hist, Answered(q, status))
    /\ UNCHANGED <<dbReady, clock, project_plans, lifecycle, nreq>>

\* ---------------------------------------------- DELETE /projects/{project_id}
\* mongodb.py 251-254
delete_update(now) == [status |-> "deleted", updated_at |-> now]

\* A mutation of soft_delete_project: a project already deleted is not matched
soft_delete_project_once(coll, id, set) ==
    IF id \in DOMAIN coll /\ Get(coll[id], "status", "") = "deleted"
    THEN [found |-> FALSE, doc |-> <<>>, coll |-> coll]
    ELSE find_one_and_update(coll, id, set)

\* mongodb.py 256-260: the write of soft_delete_project
soft_delete_project(coll, id, set) == find_one_and_update(coll, id, set)

\* routes.py 299-302 and mongodb.py 244-256: the handler up to find_one_and_update
StartDelete(r, id) ==
    /\ Admit(r)
    /\ LET q == [IdleReq EXCEPT !.kind = "delete", !.id = id]
       IN Step(r,
            IF ~dbReady THEN HTTPError(q, 500, str_HTTPException(DbNotInitialized))
            ELSE IF ~ObjectIdValid(id) THEN HTTPError(q, 400, "Invalid project ID format")
            ELSE [q EXCEPT !.pc = "delete_write", !.plan = delete_update(clock)])
    /\ UNCHANGED <<dbReady, clock, projects, project_plans, lifecycle, hist>>

\* mongodb.py 256-273 and routes.py 304-317: find_one_and_update answers
DeleteWrite(r, ok) ==
    /\ req[r].pc = "delete_write"
    /\ LET q == req[r]
           w == soft_delete_project(projects, q.id, q.plan)
           status == IF ~ok THEN 500 ELSE IF w.found THEN 200 ELSE 404
       IN /\ projects' = IF ok THEN w.coll ELSE projects
          /\ Step(r,
                CASE status = 500 -> HTTPError(q, 500, "PyMongoError")
                  [] status = 404 -> HTTPError(q, 404, "Project not found")
                  [] OTHER -> Respond(q, 200, serialize_project(q.id, w.doc)))
          /\ hist' = Append(hist, Answered(q, status))
    /\ UNCHANGED <<dbReady, clock, project_plans, lifecycle, nreq>>

\* -------------------------------------------------------------- GET /projects
\* routes.py 74-82: the handler up to the first fetch of the cursor; the
\* HTTPException of a store not ready is caught by `except Exception`
StartList(r) ==
    /\ Admit(r)
    /\ LET q == [IdleReq EXCEPT !.kind = "list"]
       IN Step(r,
            IF ~dbReady THEN HTTPError(q, 500, str_HTTPException(DbNotInitialized))
            ELSE [q EXCEPT !.pc = "list_find"])
    /\ UNCHANGED <<dbReady, clock, projects, project_plans, lifecycle, hist>>

\* The ids of coll in the order the cursor yields them
RECURSIVE IdsInOrder(_)
IdsInOrder(ids) ==
    IF ids = {} THEN <<>>
    ELSE LET id == CHOOSE x \in ids : \A y \in ids : x = y \/ (x = "p1" /\ y = "p2")
         IN <<id>> \o IdsInOrder(ids \ {id})

\* The document holds a bson.ObjectId
HoldsObjectId(doc) ==
    \/ "user" \in DOMAIN doc /\ doc.user.oid
    \/ "tasks" \in DOMAIN doc /\ \E i \in DOMAIN doc.tasks : doc.tasks[i].oid

\* routes.py 97-98 and FastAPI's serialisation of the returned list: an
\* ObjectId left in a document cannot be encoded and the request ends in 500
ListResponse(q, docs) ==
    IF \E i \in 1..Len(docs) : HoldsObjectId(docs[i])
    THEN HTTPError(q, 500, "Internal Server Error")
    ELSE Respond(q, 200, [projects |-> docs])

\* routes.py 82-89: the cursor's batch arrives (all documents, for a collection
\* this small) and the handler runs up to the first has_plan lookup
ListFind(r, ok) ==
    /\ req[r].pc = "list_find"
    /\ LET q == req[r]
           ids == IdsInOrder(DOMAIN projects)
           docs == [i \in 1..Len(ids) |-> Merge(projects[ids[i]], [_id |-> ids[i]])]
       IN Step(r,
            IF ~ok THEN HTTPError(q, 500, "PyMongoError")
            ELSE IF docs = <<>> THEN ListResponse(q, docs)
            ELSE [q EXCEPT !.pc = "list_has_plan", !.docs = docs])
    /\ UNCHANGED <<dbReady, clock, projects, project_plans, lifecycle, nreq, hist>>

\* routes.py 89-98: project_plans.find_one answers for the next project of the
\* batch; after the last one the list is returned
ListHasPlan(r, ok) ==
    /\ req[r].pc = "list_has_plan"
    /\ LET q == req[r]
           i == CHOOSE k \in 1..Len(q.docs) :
                    /\ "has_plan" \notin DOMAIN q.docs[k]
                    /\ \A j \in 1..(k - 1) : "has_plan" \in DOMAIN q.docs[j]
           has_plan == find_one(project_plans, q.docs[i]["_id"]) # 0
           docs == [q.docs EXCEPT ![i] = Merge(@, [has_plan |-> has_plan])]
       IN Step(r,
            IF ~ok THEN HTTPError(q, 500, "PyMongoError")
            ELSE IF i = Len(docs) THEN ListResponse(q, docs)
            ELSE [q EXCEPT !.docs = docs])
    /\ UNCHANGED <<dbReady, clock, projects, project_plans, lifecycle, nreq, hist>>

\* ------------------------------------------------------ MongoDB.get_project
\* mongodb.py 80-84, 90-92: get_project(project_id) up to find_one; the
\* exceptions raised on the way are logged and raised again
StartGetProject(r, id) ==
    /\ Admit(r)
    /\ LET q == [IdleReq EXCEPT !.kind = "get_project", !.id = id]
       IN Step(r,
            IF ~dbReady THEN Raised(q, Exc("HTTPException", DbNotInitialized))
            ELSE IF ~ObjectIdValid(id) THEN Raised(q, Exc("InvalidId", id))
            ELSE [q EXCEPT !.pc = "get_find"])
    /\ UNCHANGED <<dbReady, clock, projects, project_plans, lifecycle, hist>>

\* mongodb.py 85-92: find_one answers; the result for an id that matches
\* nothing is empty ({}; None in src/app/core/mongodb.py 94)
GetFind(r, ok) ==
    /\ req[r].pc = "get_find"
    /\ LET q == req[r]
       IN Step(r,
            IF ~ok THEN Raised(q, Exc("PyMongoError", "find_one"))
            ELSE IF q.id \in DOMAIN projects
                 THEN Returned(q, Merge(projects[q.id], [_id |-> q.id]))
            ELSE Returned(q, <<>>))
    /\ UNCHANGED <<dbReady, clock, projects, project_plans, lifecycle, nreq, hist>>

\* ------------------------------------------------------------- environment
\* mongodb.py 54-65: connect_to_mongo sets the process-wide handle
Connect ==
    /\ ~dbReady
    /\ dbReady' = TRUE
    /\ UNCHANGED <<clock, projects, project_plans, req, last, lifecycle, nreq, hist>>

\* mongodb.py 54: range(3)
MaxConnectAttempts == 3

\* mongodb.py 39-51, 72-75: connect_to_mongo up to its first ping; the client
\* is made (ok) or AsyncIOMotorClient raises, which the outer handler turns
\* into an HTTPException
StartConnect(r, ok) ==
    /\ Call(r)
    /\ LET q == [IdleReq EXCEPT !.kind = "connect"]
       IN Step(r,
            IF ~ok THEN Raised(q, Exc("HTTPException", "Failed to connect to MongoDB"))
            ELSE [q EXCEPT !.pc = "ping", !.calls = 1])
    /\ UNCHANGED <<dbReady, clock, projects, project_plans, lifecycle, hist>>

\* mongodb.py 66-75: a verification attempt raised; the last one raises on,
\* the others wait a second
AttemptFails(q) ==
    IF q.calls = MaxConnectAttempts
    THEN Raised(q, Exc("HTTPException", "Failed to connect to MongoDB"))
    ELSE [q EXCEPT !.pc = "sleep"]

\* mongodb.py 56-57: the ping answers and the handle is set, or it fails
ConnectPing(r, ok) ==
    /\ req[r].kind = "connect" /\ req[r].pc = "ping"
    /\ dbReady' = (dbReady \/ ok)
    /\ Step(r, IF ok THEN [req[r] EXCEPT !.pc = "count_projects"] ELSE AttemptFails(req[r]))
    /\ UNCHANGED <<clock, projects, project_plans, lifecycle, nreq, hist>>

\* mongodb.py 61: projects.count_documents answers or fails
ConnectCountProjects(r, ok) ==
    /\ req[r].kind = "connect" /\ req[r].pc = "count_projects"
    /\ Step(r, IF ok THEN [req[r] EXCEPT !.pc = "count_plans"] ELSE AttemptFails(req[r]))
    /\ UNCHANGED <<dbReady, clock, projects, project_plans, lifecycle, nreq, hist>>

\* mongodb.py 62-65: project_plans.count_documents answers and connect_to_mongo
\* returns, or it fails
ConnectCountPlans(r, ok) ==
    /\ req[r].kind = "connect" /\ req[r].pc = "count_plans"
    /\ Step(r, IF ok THEN Returned(req[r], <<>>) ELSE AttemptFails(req[r]))
    /\ UNCHANGED <<dbReady, clock, projects, project_plans, lifecycle, nreq, hist>>

\* mongodb.py 70 and 54-56: asyncio.sleep(1) is over and the next attempt begins
ConnectSleep(r) ==
    /\ req[r].kind = "connect" /\ req[r].pc = "sleep"
    /\ Step(r, [req[r] EXCEPT !.pc = "ping", !.calls = @ + 1])
    /\ UNCHANGED <<dbReady, clock, projects, project_plans, lifecycle, nreq, hist>>

\* Time passes
Tick ==
    /\ clock < MaxClock
    /\ clock' = clock + 1
    /\ UNCHANGED <<dbReady, projects, project_plans, req, last, lifecycle, nreq, hist>>

\* ------------------------------------------------------- the service: Spec
\* A plan with all four fields; the same with a member "error"; a refinement
\* of one task; the same under another task name
PlanText ==
    <<"{", "a", "b:", "[", "s", "]", "c:", "[", "{", "m", "}", "]",
      "d:", "[", "{", "n", "deps:", "[", "]", "}", "]", "}">>
PlanTextError == SubSeq(PlanText, 1, Len(PlanText) - 1) \o <<"e", "}">>
RefinedText ==
    <<"[", "{", "n", "deps:", "[", "]", "subs:", "[", "{", "u", "}", "]", "}", "]">>
RenamedText == <<"[", "{", "n2">> \o SubSeq(RefinedText, 4, Len(RefinedText))

\* The texts the LLM answers with in the running service
Responses == {PlanText, PlanTextError, RefinedText, RenamedText, <<"t">>}

\* A project stored by an earlier create
StoredProject ==
    [title |-> "Website Redesign", user |-> Plain("x"), created_at |-> 0, updated_at |-> 0]

Init ==
    /\ dbReady = FALSE
    /\ clock = 0
    /\ projects = [id \in {"p1"} |-> StoredProject]
    /\ project_plans = <<>>
    /\ req = [r \in Reqs |-> IdleReq]
    /\ last = NoAnswer
    /\ lifecycle = [id \in ValidIds |-> "NoPlan"]
    /\ nreq = 0
    /\ hist = <<>>

Next ==
    \/ Connect
    \/ Tick
    \/ \E r \in Reqs :
        \/ \E id \in PathIds : StartPlan(r, id) \/ StartRefine(r, id)
        \/ \E data \in CreateInputs : StartCreate(r, data)
        \/ \E o \in Outcomes(Responses) : LLMReturn(r, o)
        \/ \E ok \in BOOLEAN :
            \/ PlanFindPlan(r, ok)
            \/ PlanFindProject(r, ok)
            \/ GenerateStore(r, ok)
            \/ RouteStore(r, ok)
            \/ RefineFindProject(r, ok)
            \/ RefineFindPlan(r, ok)
            \/ RefineFind(r, ok)
            \/ RefineStore(r, ok)
            \/ CreateInsert(r, ok)
            \/ CreateFind(r, ok)

Spec == Init /\ [][Next]_vars

\* ------------------------------------- one call of a planner method: PlannerSpec
\* The texts the LLM answers with: a plan, a plan without three of its fields,
\* a refinement, prose, nothing
PlannerTexts == {PlanText, <<"{", "a", "}">>, RefinedText, <<"t">>, <<>>}

\* The plan document a generation of PlanText for p1 leaves in the store
GeneratedDoc == UpsertDoc(<<>>, "p1", StampPlan(SynthParse(PlanText).plan.members, 0))

\* The tasks a caller passes to refine_project_tasks
CallTasks == {InitialTasks("Website Redesign"), JList(<<>>)}

PlannerInit ==
    /\ dbReady \in BOOLEAN
    /\ clock = 0
    /\ projects = [id \in {"p1"} |-> StoredProject]
    /\ project_plans \in {<<>>, <<GeneratedDoc>>}
    /\ req = [r \in Reqs |-> IdleReq]
    /\ last = NoAnswer
    /\ lifecycle = [id \in ValidIds |->
                        IF find_one(project_plans, id) # 0 THEN "Generated" ELSE "NoPlan"]
    /\ nreq = 0
    /\ hist = <<>>

PlannerNext ==
    \/ Tick
    \/ \E id \in ValidIds, has_id \in BOOLEAN : StartGenerateCall(1, id, has_id)
    \/ \E id \in ValidIds, tasks \in CallTasks : StartRefineCall(1, id, tasks)
    \/ \E o \in Outcomes(PlannerTexts) : LLMReturn(1, o)
    \/ \E ok \in BOOLEAN :
        \/ GenerateStore(1, ok)
        \/ RefineFind(1, ok)
        \/ RefineStore(1, ok)

PlannerSpec == PlannerInit /\ [][PlannerNext]_vars

\* ------------------------------------ the Synthesizer on every text: ParseSpec
\* All the sequences over S of length at most n
SeqsUpTo(S, n) == UNION {[1..k -> S] : k \in 0..n}

ParseAlphabet == {"{", "}", "[", "]", " ", "t", "a", "s", "S"}

\* An object holding any subset of the four required fields, a list field
\* either empty or not
FieldTexts ==
    {<<"{">> \o a \o b \o c \o d \o <<"}">> :
        a \in {<<>>, <<"a">>},
        b \in {<<>>, <<"b:", "[", "]">>, <<"b:", "[", "s", "]">>},
        c \in {<<>>, <<"c:", "[", "]">>, <<"c:", "[", "{", "m", "}", "]">>},
        d \in {<<>>, <<"d:", "[", "]">>,
               <<"d:", "[", "{", "n", "deps:", "[", "]", "}", "]">>}}

\* What the LLM writes around an object
Affixes == {<<>>, <<"t">>, <<" ">>, <<"t", "{">>, <<"}", "t">>}

ParseTexts ==
    SeqsUpTo(ParseAlphabet, MaxLen)
        \cup {before \o text \o after :
                before \in Affixes, text \in FieldTexts, after \in Affixes}

ParseInit ==
    /\ dbReady = TRUE
    /\ clock = 0
    /\ projects = [id \in {"p1"} |-> StoredProject]
    /\ project_plans = <<>>
    /\ req = [r \in Reqs |-> IdleReq]
    /\ last = NoAnswer
    /\ lifecycle = [id \in ValidIds |-> "NoPlan"]
    /\ nreq = 0
    /\ hist = <<>>

ParseNext ==
    \/ StartGenerateCall(1, "p1", TRUE)
    \/ /\ req[1].pc = "llm"
       /\ \E text \in ParseTexts : LLMReturn(1, [kind |-> "ok", text |-> text, exc |-> ""])
    \/ \E ok \in BOOLEAN : GenerateStore(1, ok)

ParseSpec == ParseInit /\ [][ParseNext]_vars

\* ------------------------------ the plan records of a running service: LifecycleSpec
\* The service connected, every read answering; the writes may fail
LifecycleResponses == {PlanText, RefinedText, <<"t">>}

LifecycleInit ==
    /\ dbReady = TRUE
    /\ clock = 0
    /\ projects = [id \in {"p1"} |-> StoredProject]
    /\ project_plans = <<>>
    /\ req = [r \in Reqs |-> IdleReq]
    /\ last = NoAnswer
    /\ lifecycle = [id \in ValidIds |-> "NoPlan"]
    /\ nreq = 0
    /\ hist = <<>>

LifecycleNext ==
    \E r \in Reqs :
        \/ \E id \in ValidIds : StartPlan(r, id) \/ StartRefine(r, id)
        \/ \E o \in Outcomes(LifecycleResponses) : LLMReturn(r, o)
        \/ PlanFindPlan(r, TRUE)
        \/ PlanFindProject(r, TRUE)
        \/ RefineFindProject(r, TRUE)
        \/ RefineFindPlan(r, TRUE)
        \/ RefineFind(r, TRUE)
        \/ \E ok \in BOOLEAN :
            \/ GenerateStore(r, ok)
            \/ RouteStore(r, ok)
            \/ RefineStore(r, ok)

LifecycleSpec == LifecycleInit /\ [][LifecycleNext]_vars

\* --------------------------------------- the project records: ProjectSpec
\* What clients send to POST /projects: the required fields only, or with a
\* status, a progress and references that are valid ObjectIds
ProjectInputs ==
    {[title |-> "Website Redesign", user |-> Plain("x")],
     [title |-> "Website Redesign", user |-> Plain("T"), status |-> "active",
      progress |-> 10, tasks |-> <<Plain("t")>>]}

ProjectInit ==
    /\ dbReady = FALSE
    /\ clock = 0
    /\ projects = [id \in {"p1"} |-> StoredProject]
    /\ project_plans = <<GeneratedDoc>>
    /\ req = [r \in Reqs |-> IdleReq]
    /\ last = NoAnswer
    /\ lifecycle = [id \in ValidIds |->
                        IF find_one(project_plans, id) # 0 THEN "Generated" ELSE "NoPlan"]
    /\ nreq = 0
    /\ hist = <<>>

ProjectNext ==
    \/ Connect
    \/ Tick
    \/ \E r \in Reqs :
        \/ \E data \in ProjectInputs : StartCreate(r, data)
        \/ \E id \in PathIds, data \in UpdateInputs : StartUpdate(r, id, data)
        \/ \E id \in PathIds : StartDelete(r, id) \/ StartGetProject(r, id)
        \/ StartList(r)
        \/ \E ok \in BOOLEAN :
            \/ CreateInsert(r, ok)
            \/ CreateFind(r, ok)
            \/ UpdateWrite(r, ok)
            \/ DeleteWrite(r, ok)
            \/ ListFind(r, ok)
            \/ ListHasPlan(r, ok)
            \/ GetFind(r, ok)

ProjectSpec == ProjectInit /\ [][ProjectNext]_vars

\* ------------------------------- one request after the other: SequentialSpec
\* The project routes used by one client that waits for each answer
SequentialNext ==
    \/ Connect
    \/ \E data \in ProjectInputs : StartCreate(1, data)
    \/ \E id \in ValidIds, data \in UpdateInputs : StartUpdate(1, id, data)
    \/ \E id \in ValidIds : StartDelete(1, id)
    \/ StartList(1)
    \/ \E ok \in BOOLEAN :
        \/ CreateInsert(1, ok)
        \/ CreateFind(1, ok)
        \/ UpdateWrite(1, ok)
        \/ DeleteWrite(1, ok)
        \/ ListFind(1, ok)
        \/ ListHasPlan(1, ok)

SequentialSpec == ProjectInit /\ [][SequentialNext]_vars

\* ------------------------- plan requests racing for one project: RaceSpec
\* A second plan, other than PlanText in three of its four fields
OtherPlanText ==
    <<"{", "a", "b:", "[", "S", "]", "c:", "[", "]",
      "d:", "[", "{", "n2", "deps:", "[", "]", "}", "]", "}">>

\* The plans the LLM answers with
RaceTexts == {PlanText, OtherPlanText}

\* GET /projects/p1/plan requests on a connected store in which p1 has no
\* plan; every store call answers
RaceNext ==
    \/ Tick
    \/ \E r \in Reqs :
        \/ StartPlan(r, "p1")
        \/ PlanFindPlan(r, TRUE)
        \/ PlanFindProject(r, TRUE)
        \/ \E text \in RaceTexts : LLMReturn(r, [kind |-> "ok", text |-> text, exc |-> ""])
        \/ GenerateStore(r, TRUE)
        \/ RouteStore(r, TRUE)

RaceSpec == LifecycleInit /\ [][RaceNext]_vars

\* ------------------------------------- the store handle at startup: ConnectSpec
\* connect_to_mongo called once, and data operations before and after it
ConnectNext ==
    \/ Tick
    \/ \E ok \in BOOLEAN :
        \/ StartConnect(1, ok)
        \/ ConnectPing(1, ok)
        \/ ConnectCountProjects(1, ok)
        \/ ConnectCountPlans(1, ok)
        \/ GetFind(1, ok)
        \/ ListFind(1, ok)
        \/ ListHasPlan(1, ok)
        \/ DeleteWrite(1, ok)
    \/ ConnectSleep(1)
    \/ \E id \in PathIds : StartGetProject(1, id) \/ StartDelete(1, id)
    \/ StartList(1)

ConnectSpec == ProjectInit /\ [][ConnectNext]_vars

\* ------------------------------------------------------------------ claims
Range(seq) == {seq[i] : i \in 1..Len(seq)}

\* The plan document stored for id (find_one # 0)
PlanOf(coll, id) == coll[find_one(coll, id)]

\* C1: once a plan record exists for a project id, every later plan write for
\* that id leaves the record's created_at as the first write set it and never
\* moves updated_at back.
C1_CreatedAtPreserved ==
    [][\A id \in ValidIds :
          find_one(project_plans, id) # 0
              => /\ find_one(project_plans', id) # 0
                 /\ PlanOf(project_plans', id).created_at
                        = PlanOf(project_plans, id).created_at
                 /\ PlanOf(project_plans', id).updated_at
                        >= PlanOf(project_plans, id).updated_at]_vars

\* C2: in every reachable state the plan collection holds at most one plan
\* record per project id.
C2_OnePlanPerProject ==
    \A i, j \in 1..Len(project_plans) :
        project_plans[i].project_id = project_plans[j].project_id => i = j

\* The direct call of a planner method: its kind, whether it has returned, and
\* what it returned
CallKind == IF req[1].pc # "idle" THEN req[1].kind ELSE last.kind
CallId == IF req[1].pc # "idle" THEN req[1].id ELSE last.id
Finished == nreq = 1 /\ req[1].pc = "idle"
Body == last.result.body
Failed == Finished /\ ~last.result.raised /\ "error" \in DOMAIN Body
Succeeded == Finished /\ ~last.result.raised /\ "error" \notin DOMAIN Body

RateLimited == [kind |-> "raise", text |-> <<>>, exc |-> "RateLimitError"]

\* The text processes without failure: what the call then returns is made of it
ProcessedOk(text) ==
    IF CallKind = "generate_call"
    THEN /\ SynthParse(text).ok
         /\ \A f \in Range(required_fields) : Body[f] = SynthParse(text).plan.members[f]
    ELSE /\ RefineParse(text).ok
         /\ Body.refined_tasks = RefineParse(text).refined_tasks

\* C3: within one call, the number of LLM invocations never exceeds 3; after
\* two rate-limit failures and a success exactly 3 invocations were made and
\* the call's result comes from processing the third response, never from a
\* provider failure; after three rate-limit failures the retry wrapper has
\* raised (RetryError) and the call is over.
C3_RetryPolicy ==
    /\ Len(hist) <= MaxAttempts
    /\ nreq = 1 => Len(hist) = (IF req[1].pc # "idle" THEN req[1].calls ELSE last.calls)
    /\ (Len(hist) = 3 /\ hist[1] = RateLimited /\ hist[2] = RateLimited
            /\ hist[3].kind = "ok")
        => /\ Succeeded => ProcessedOk(hist[3].text)
           /\ Failed => Body.error.type \notin LLMErrors \cup {"RetryError"}
    /\ hist = <<RateLimited, RateLimited, RateLimited>>
        => Failed /\ Body.error.type = "RetryError" /\ last.calls = 3

C3_Witness ==
    /\ Succeeded
    /\ CallKind = "generate_call"
    /\ hist = <<RateLimited, RateLimited, [kind |-> "ok", text |-> PlanText, exc |-> ""]>>
    /\ last.calls = 3

\* C4: when an LLM invocation fails with an authentication or bad-request
\* error, no further invocation is made in that call: exactly one invocation,
\* and the call ends in a failure.
C4_NoRetryOnOtherErrors ==
    \A i \in 1..Len(hist) :
        (hist[i].kind = "raise" /\ hist[i].exc \in {"AuthenticationError", "BadRequestError"})
            => Len(hist) = 1 /\ Failed

\* The text fails repair/parsing or required-field validation
ParseFails(text) ==
    IF CallKind = "generate_call" THEN ~SynthParse(text).ok ELSE ~RefineParse(text).ok

\* C5: when an invocation returned a text that fails parsing or validation,
\* it is the last invocation of the call, the only one that returned a text,
\* and the call has ended in a failure (a ValueError).
C5_NoRetryAfterBadText ==
    \A i \in 1..Len(hist) :
        (hist[i].kind = "ok" /\ ParseFails(hist[i].text))
            => /\ i = Len(hist)
               /\ \A j \in 1..(i - 1) : hist[j].kind = "raise"
               /\ Failed
               /\ Body.error.type = "ValueError"
               /\ last.calls = Len(hist)

C5_Witness ==
    /\ Failed
    /\ CallKind = "refine_call"
    /\ hist = <<RateLimited, [kind |-> "ok", text |-> <<"t">>, exc |-> ""]>>
    /\ Body.error.text = "Invalid JSON response for refined tasks"

\* The one response of the call, and what ends it when the Synthesizer refuses it
OneText == Len(hist) = 1 /\ hist[1].kind = "ok"
Text == hist[1].text
Malformed == Failed /\ Body.error.text = "Invalid JSON response from LLM"
Incomplete(fields) ==
    /\ Failed
    /\ Body.error.text = "Missing required fields in plan"
    /\ Range(Body.error.fields) = fields
    /\ Len(Body.error.fields) = Cardinality(fields)

\* The Synthesizer has parsed the response as the object obj: with all four
\* fields it goes on to store obj's members, with fewer it fails naming the
\* fields obj lacks
Yields(obj) ==
    IF Range(required_fields) \subseteq DOMAIN obj
    THEN /\ req[1].pc = "store_plan" => \A k \in DOMAIN obj : req[1].plan[k] = obj[k]
         /\ Succeeded => \A k \in DOMAIN obj : Body[k] = obj[k]
         /\ Failed => Body.error.type = "PyMongoError"
    ELSE Incomplete(Range(required_fields) \ DOMAIN obj)

\* The text from the first "{" to the last "}" of s
Braced(s) == SubSeq(s, find(s, "{"), rfind(s, "}"))
HasBraces(s) == find(s, "{") # 0 /\ rfind(s, "}") # 0
IsObject(s) == json_loads(s).ok /\ json_loads(s).value.type = "dict"

\* A valid JSON object with nothing but prose and whitespace around it
Embedded(s) ==
    /\ HasBraces(s)
    /\ IsObject(Braced(s))
    /\ \A i \in 1..Len(s) : (i < find(s, "{") \/ i > rfind(s, "}")) => s[i] \in {"t", " "}

\* C6 as stated: a valid JSON object embedded in surrounding explanatory text is
\* extracted (first "{" to last "}") and parsed as that object; a text without
\* a "{"/"}" pair fails as MalformedPlanResponse and in no other way.
C6_RepairAsStated ==
    OneText =>
        /\ Embedded(Text) => Yields(json_loads(Braced(Text)).value.members)
        /\ ~HasBraces(Text) => Malformed

\* C6 as amended: when the trimmed text does not start with "{" and the text
\* from its first "{" to its last "}" is a valid JSON object, that object is
\* what is parsed; a text without a "{"/"}" pair never succeeds, and it fails as
\* MalformedPlanResponse when it is not empty and, trimmed, is not valid JSON.
C6_Repair ==
    OneText =>
        /\ (~startswith(strip(Text), "{") /\ HasBraces(Text) /\ IsObject(Braced(Text)))
            => Yields(json_loads(Braced(Text)).value.members)
        /\ ~HasBraces(Text)
            => /\ Failed
               /\ Body.error.type \in {"ValueError", "TypeError"}
               /\ (Text # <<>> /\ ~json_loads(strip(Text)).ok) => Malformed

C6_Witness ==
    /\ OneText
    /\ Text = <<"t">> \o PlanText \o <<"t">>
    /\ Succeeded
    /\ Body.project_summary = JStr(<<"summary">>)

\* C7: for every response parsed as an object: when it lacks some of the four
\* required fields, generation fails with IncompletePlan naming exactly the
\* fields it lacks; when it has all four, even as empty lists, validation
\* succeeds and the plan goes to the store.
C7_RequiredFields ==
    (OneText /\ Text # <<>> /\ IsObject(cleaned_response(Text, "{")))
        => LET obj == json_loads(cleaned_response(Text, "{")).value.members
               absent == Range(required_fields) \ DOMAIN obj
           IN IF absent # {}
              THEN Incomplete(absent)
              ELSE /\ req[1].pc = "store_plan" \/ Finished
                   /\ Failed => Body.error.type = "PyMongoError"

C7_Witness ==
    /\ OneText
    /\ Text = <<"{", "a", "c:", "[", "]", "}">>
    /\ Incomplete({"key_features_deliverables", "high_level_tasks"})

\* C8: a planner method never lets an exception reach its caller; a call that
\* does not return its result (the stored plan, the refined tasks) returns an
\* object with both "error" and "message".
C8_ErrorsAsData ==
    Finished =>
        /\ ~last.result.raised
        /\ "error" \in DOMAIN Body <=> "message" \in DOMAIN Body
        /\ "error" \notin DOMAIN Body
            => /\ hist # <<>>
               /\ hist[Len(hist)].kind = "ok"
               /\ ProcessedOk(hist[Len(hist)].text)
               /\ find_one(project_plans, CallId) # 0

C8_Witness ==
    /\ Failed
    /\ CallKind = "generate_call"
    /\ Body.error.type = "KeyError"
    /\ Body.message = "Failed to generate project plan."

\* C9: every 200 answer of GET /projects/{id}/plan holds all four required
\* fields.
C9_NoPartialPlan ==
    (last.kind = "plan" /\ last.result.status = 200)
        => Range(required_fields) \subseteq DOMAIN last.result.body

\* C10 as stated: no step takes a project's plan from NoPlan directly to
\* Refined (and none takes it back to NoPlan).
C10_LifecycleAsStated ==
    [][\A id \in ValidIds :
          /\ lifecycle[id] = "NoPlan" => lifecycle'[id] # "Refined"
          /\ lifecycle[id] # "NoPlan" => lifecycle'[id] # "NoPlan"]_vars

\* C10 as amended: a project's plan leaves NoPlan by a generation or by a
\* refinement, each of which leaves a plan record, and no step leads back to
\* NoPlan: a plan record, once stored, stays stored.
C10_Lifecycle ==
    [][\A id \in ValidIds :
          /\ lifecycle[id] # "NoPlan" => lifecycle'[id] # "NoPlan"
          /\ find_one(project_plans, id) # 0 => find_one(project_plans', id) # 0
          /\ lifecycle'[id] # lifecycle[id]
              => /\ lifecycle'[id] \in {"Generated", "Refined"}
                 /\ find_one(project_plans', id) # 0]_vars

C10_Witness ==
    \E id \in ValidIds :
        /\ lifecycle[id] = "Refined"
        /\ find_one(project_plans, id) # 0
        /\ "project_summary" \notin DOMAIN PlanOf(project_plans, id)


\* The refined task keeps what the original task said of itself
KeepsTask(original, refined) ==
    /\ refined.type = "dict"
    /\ original.type = "dict"
    /\ \A f \in {"task_name", "description", "dependencies"} :
          f \in DOMAIN original.members
              => f \in DOMAIN refined.members /\ refined.members[f] = original.members[f]

\* refined_tasks holds the original tasks, one for one and in their order
KeepsTasks(original_tasks, refined_tasks) ==
    /\ refined_tasks.type = "list"
    /\ Len(refined_tasks.items) = Len(original_tasks.items)
    /\ \A i \in 1..Len(original_tasks.items) :
          KeepsTask(original_tasks.items[i], refined_tasks.items[i])

\* C11: every refinement answered 200 returns refined_tasks that keep, task for
\* task and in the same order, the task_name, description and dependencies of
\* the original tasks.
C11_TasksPreserved ==
    (last.kind = "refine" /\ last.result.status = 200)
        => KeepsTasks(last.result.body.original_tasks, last.result.body.refined_tasks)

\* Slot r answers 200 in this step, from the await of the Refiner's update_one:
\* the refinement had read a stored plan (it has an _id) and now updates it
RefinedStoredPlan(r) ==
    /\ req[r].kind = "refine" /\ req[r].pc = "refine_store" /\ ~req[r].inserting
    /\ "_id" \in DOMAIN req[r].plan
    /\ find_one(project_plans, req[r].id) # 0
    /\ req'[r].pc = "idle"
    /\ last'.r = r /\ last'.result.status = 200

\* C12: a successful refinement of a project that has a plan writes the refined
\* array as high_level_tasks and the time it read as updated_at, leaves every
\* other field of the stored plan as it was, and answers project_id,
\* refined_tasks and the original_tasks it was given.
C12_RefineFrame ==
    [][\A r \in Reqs :
          RefinedStoredPlan(r)
              => LET old == PlanOf(project_plans, req[r].id)
                     new == PlanOf(project_plans', req[r].id)
                     body == last'.result.body
                 IN /\ new.high_level_tasks = body.refined_tasks
                    /\ new.updated_at = req[r].plan.updated_at
                    /\ DOMAIN new = DOMAIN old \cup {"high_level_tasks", "updated_at"}
                    /\ \A f \in (DOMAIN old) \ {"high_level_tasks", "updated_at"} :
                          new[f] = old[f]
                    /\ body.project_id = req[r].id
                    /\ body.original_tasks = req[r].tasks]_vars

\* The direct call failed at a step before its update_one
FailedBeforeUpsert == Failed /\ Body.error.text # "update_one"

\* C13: a refinement that fails before its upsert (provider error, retries
\* used up, unparseable response, failed read) leaves the plan collection as
\* it was before the call: empty, or holding the one plan it held.
C13_FailedRefineWritesNothing ==
    (CallKind = "refine_call" /\ FailedBeforeUpsert)
        => /\ project_plans \in {<<>>, <<GeneratedDoc>>}
           /\ \A id \in ValidIds :
                 lifecycle[id] =
                     IF find_one(project_plans, id) # 0 THEN "Generated" ELSE "NoPlan"

\* The LLM's answer to a refinement of a project without a plan did not parse
C13_Witness ==
    /\ CallKind = "refine_call" /\ FailedBeforeUpsert
    /\ Body.error.type = "ValueError"
    /\ Len(hist) = 1 /\ hist[1].kind = "ok"
    /\ project_plans = <<>>

\* C14: a project record is created with created_at = updated_at; no later
\* step changes its created_at or moves its updated_at back, and updated_at >=
\* created_at in every state.
C14_ProjectTimestamps ==
    [][/\ \A id \in (DOMAIN projects') \ (DOMAIN projects) :
             projects'[id].created_at = projects'[id].updated_at
       /\ \A id \in DOMAIN projects :
             /\ id \in DOMAIN projects'
             /\ projects'[id].created_at = projects[id].created_at
             /\ projects'[id].updated_at >= projects[id].updated_at
             /\ projects'[id].updated_at >= projects'[id].created_at]_vars

\* Slot r answers 200 in this step, from the await of update_project's
\* find_one_and_update
UpdateApplied(r) ==
    /\ req[r].kind = "update" /\ req[r].pc = "update_write"
    /\ req'[r].pc = "idle"
    /\ last'.r = r /\ last'.result.status = 200

\* C15: an update of an existing project writes the supplied fields and
\* updated_at, leaves the project's other fields, the other projects and the
\* plans as they were, and answers the record as it is after the update.
C15_UpdateFrame ==
    [][\A r \in Reqs :
          UpdateApplied(r)
              => LET id == req[r].id
                     set == req[r].plan
                 IN /\ id \in DOMAIN projects
                    /\ DOMAIN projects' = DOMAIN projects
                    /\ DOMAIN projects'[id] = (DOMAIN projects[id]) \cup (DOMAIN set)
                    /\ \A f \in DOMAIN set : projects'[id][f] = set[f]
                    /\ \A f \in (DOMAIN projects[id]) \ (DOMAIN set) :
                          projects'[id][f] = projects[id][f]
                    /\ \A other \in (DOMAIN projects) \ {id} :
                          projects'[other] = projects[other]
                    /\ project_plans' = project_plans
                    /\ last'.result.body = serialize_project(id, projects'[id])]_vars

\* PATCH {"progress": 40} was answered: progress is 40, the title is the old one
C15_Witness ==
    /\ last.kind = "update" /\ last.result.status = 200
    /\ "progress" \in DOMAIN last.result.body
    /\ last.result.body.progress = 40
    /\ last.result.body.title = "Website Redesign"
    /\ projects[last.id].progress = 40
    /\ projects[last.id].title = "Website Redesign"
    /\ projects[last.id].updated_at = 1

\* Slot r answers 200 in this step to a POST /projects that sent neither a
\* status nor a progress
CreatedWithDefaults(r) ==
    /\ req[r].kind = "create" /\ req[r].pc = "created_find"
    /\ "status" \notin DOMAIN req[r].plan /\ "progress" \notin DOMAIN req[r].plan
    /\ req'[r].pc = "idle"
    /\ last'.r = r /\ last'.result.status = 200

\* C16: a project created without a status and without a progress is answered,
\* and stored, with status "planning" and progress 0.
C16_CreateDefaults ==
    [][\A r \in Reqs :
          CreatedWithDefaults(r)
              => /\ Get(last'.result.body, "status", "") = "planning"
                 /\ Get(last'.result.body, "progress", -1) = 0
                 /\ Get(projects'[req[r].id], "status", "") = "planning"
                 /\ Get(projects'[req[r].id], "progress", -1) = 0]_vars

\* Slot r answers in this step, from the await of soft_delete_project's
\* find_one_and_update
DeleteAnswered(r) ==
    /\ req[r].kind = "delete" /\ req[r].pc = "delete_write"
    /\ req'[r].pc = "idle"
    /\ last'.r = r

\* The store call of the request answered last failed
StoreFailed(answer) ==
    answer.result.status = 500 /\ answer.result.body.detail = "PyMongoError"

\* C17: a soft delete of a project that exists, deleted already or not, never
\* answers 404: unless the store call fails it answers 200 with the record,
\* whose status is "deleted" and whose updated_at is the time this call read.
C17_SoftDeleteIdempotent ==
    [][\A r \in Reqs :
          (DeleteAnswered(r) /\ req[r].id \in DOMAIN projects)
              => \/ StoreFailed(last')
                 \/ /\ last'.result.status = 200
                    /\ last'.result.body.status = "deleted"
                    /\ last'.result.body.updated_at = req[r].plan.updated_at
                    /\ projects'[req[r].id].status = "deleted"]_vars

\* Two soft deletes of the same project were answered 200, the second one after
\* the clock moved
C17_Witness ==
    /\ \E i, j \in 1..Len(hist) :
          /\ i < j
          /\ hist[i] = [kind |-> "delete", id |-> "p1", status |-> 200]
          /\ hist[j] = hist[i]
    /\ last.kind = "delete" /\ last.result.status = 200
    /\ last.result.body.status = "deleted"
    /\ last.result.body.updated_at = 1

\* Slot r answers in this step, as the handler or call of kind `kind`
AnsweredAs(r, kind) ==
    /\ req[r].kind = kind /\ req[r].pc # "idle"
    /\ req'[r].pc = "idle"
    /\ last'.r = r

\* The ids of the projects a list answer holds
Listed(answer) ==
    IF answer.result.status = 200
    THEN {answer.result.body.projects[i]["_id"] :
            i \in 1..Len(answer.result.body.projects)}
    ELSE {}

\* No step removes a project record
C18_NoneRemoved == \A id \in DOMAIN projects : id \in DOMAIN projects'

\* get_project, when its find_one answers, returns the record of every id that
\* has one
C18_Retrievable ==
    \A r \in Reqs :
        (AnsweredAs(r, "get_project") /\ req[r].pc = "get_find"
            /\ req[r].id \in DOMAIN projects /\ ~last'.result.raised)
            => /\ "_id" \in DOMAIN last'.result.body
               /\ last'.result.body["_id"] = req[r].id

\* GET /projects, when its store calls answer, lists every project the store
\* held when the cursor was read
C18_AllListed ==
    \A r \in Reqs :
        (AnsweredAs(r, "list") /\ req[r].pc \in {"list_find", "list_has_plan"}
            /\ ~StoreFailed(last'))
            => /\ last'.result.status = 200
               /\ Listed(last') =
                     IF req[r].pc = "list_find" THEN DOMAIN projects
                     ELSE {req[r].docs[i]["_id"] : i \in 1..Len(req[r].docs)}

\* C18: no operation removes a project record; every project created stays
\* retrievable by its id and is listed by GET /projects, soft-deleted or not.
C18_ProjectsKept ==
    [][C18_NoneRemoved /\ C18_Retrievable /\ C18_AllListed]_vars

\* The call get_project(id) in slot r ends in this step: at once, or when its
\* find_one answers
GetProjectEnds(r, id) ==
    /\ StartGetProject(r, id) \/ (req[r].id = id /\ GetFind(r, TRUE))
    /\ req'[r].pc = "idle"

\* C19: with the store ready and answering, get_project of an id that is
\* invalid, or that no project has, returns the empty result and raises
\* nothing.
C19_GetProjectEmpty ==
    [][\A r \in Reqs, id \in PathIds :
          (/\ dbReady
           /\ GetProjectEnds(r, id)
           /\ ~ObjectIdValid(id) \/ id \notin DOMAIN projects)
              => /\ last'.r = r /\ last'.kind = "get_project"
                 /\ ~last'.result.raised
                 /\ last'.result.body = <<>>]_vars

\* C20: with the store ready, a PATCH that sends a field and a DELETE answer
\* 400 for an id that is no valid ObjectId and, when the store call answers,
\* 404 for a valid id that no project has; neither changes a project or a
\* plan record.
C20_UpdateDeleteErrors ==
    [][\A r \in Reqs :
          /\ \A id \in InvalidIds :
                (/\ dbReady
                 /\ req[r].pc = "idle" /\ req'[r].pc = "idle" /\ nreq' = nreq + 1
                 /\ \/ \E data \in UpdateInputs :
                          DOMAIN data # {} /\ StartUpdate(r, id, data)
                    \/ StartDelete(r, id))
                    => /\ last'.r = r /\ last'.id = id
                       /\ last'.result.status = 400
                       /\ last'.result.body.detail = "Invalid project ID format"
                       /\ UNCHANGED <<projects, project_plans>>
          /\ (/\ req[r].pc \in {"update_write", "delete_write"}
              /\ req[r].id \notin DOMAIN projects
              /\ UpdateWrite(r, TRUE) \/ DeleteWrite(r, TRUE))
                    => /\ last'.r = r /\ last'.id = req[r].id
                       /\ last'.result.status = 404
                       /\ UNCHANGED <<projects, project_plans>>]_vars

\* A request for an id no project has was answered 404, then one for an
\* invalid id 400
C20_Witness ==
    /\ dbReady
    /\ \E i \in 1..Len(hist) : hist[i].status = 404 /\ hist[i].id \notin DOMAIN projects
    /\ last.kind \in {"update", "delete"} /\ last.id \in InvalidIds
    /\ last.result.status = 400
    /\ last.result.body.detail = "Invalid project ID format"

\* The details that name the store-not-ready error, bare or as str() of the
\* HTTPException that carried it
NotReadyDetails ==
    {DbNotInitialized, str_HTTPException(DbNotInitialized),
     str_HTTPException(str_HTTPException(DbNotInitialized))}

\* The answer is the store-not-ready server error: an HTTP 500 with that
\* detail, the HTTPException itself, or a failure payload that carries it
NotReadyError(result) ==
    \/ /\ result.status = 500
       /\ "detail" \in DOMAIN result.body
       /\ result.body.detail \in NotReadyDetails
    \/ /\ result.status = 0
       /\ "error" \in DOMAIN result.body
       /\ result.body.error.type = "HTTPException"
       /\ result.body.error.text \in NotReadyDetails

\* C21: an operation started while the store handle is not ready has ended
\* when its first step is over, with the store-not-ready error, and it has
\* neither written to the store nor invoked the LLM.
C21_FailFast ==
    [][(~dbReady /\ nreq' = nreq + 1)
          => /\ req' = req
             /\ NotReadyError(last'.result)
             /\ last'.calls = 0
             /\ projects' = projects
             /\ project_plans' = project_plans]_vars

\* The plan handler in slot r goes on to pc in this step
PlanHandlerEnters(r, pc) ==
    req'[r].kind = "plan" /\ req'[r].pc = pc /\ req[r].pc # pc

\* C22: when the plan route's check finds a stored plan for the id, the request
\* ends there with 200 and that plan (without its _id), has invoked the LLM no
\* time and leaves both collections as they are; a plan request goes on to the
\* project lookup only from a check that found no plan, and to the LLM only
\* from that lookup.
C22_CachedPlan ==
    [][\A r \in Reqs :
          /\ (PlanFindPlan(r, TRUE) /\ find_one(project_plans, req[r].id) # 0)
                => /\ req'[r] = IdleReq
                   /\ last'.r = r /\ last'.kind = "plan" /\ last'.id = req[r].id
                   /\ last'.result.status = 200
                   /\ last'.result.body = WithoutId(PlanOf(project_plans, req[r].id))
                   /\ last'.calls = 0
                   /\ projects' = projects
                   /\ project_plans' = project_plans
          /\ PlanHandlerEnters(r, "find_project")
                => /\ req[r].kind = "plan" /\ req[r].pc = "find_plan"
                   /\ find_one(project_plans, req[r].id) = 0
          /\ PlanHandlerEnters(r, "llm")
                => /\ req[r].kind = "plan" /\ req[r].pc = "find_project"
                   /\ req[r].calls = 0]_vars

\* A plan request was answered with the plan an earlier request had stored
C22_Witness ==
    /\ last.kind = "plan" /\ last.result.status = 200 /\ last.calls = 0
    /\ nreq = 2
    /\ find_one(project_plans, last.id) # 0
    /\ last.result.body = WithoutId(PlanOf(project_plans, last.id))
    /\ \A r \in Reqs : req[r].pc = "idle"

\* The list handler answers in this step, every read of it having answered
ListAnswers == (ListFind(1, TRUE) \/ ListHasPlan(1, TRUE)) /\ req'[1].pc = "idle"

\* C23: with one request after the other, GET /projects whose reads answer
\* returns 200 with every project record exactly once, each with has_plan true
\* exactly when the plan collection holds a record with its id as project_id.
C23_ListProjects ==
    [][ListAnswers
          => /\ last'.kind = "list"
             /\ last'.result.status = 200
             /\ LET listed == last'.result.body.projects
                IN /\ {listed[i]["_id"] : i \in 1..Len(listed)} = DOMAIN projects
                   /\ Len(listed) = Cardinality(DOMAIN projects)
                   /\ \A i \in 1..Len(listed) :
                         listed[i].has_plan
                             = (find_one(project_plans, listed[i]["_id"]) # 0)]_vars

\* The four content fields of a plan
ContentOf(plan) == [f \in Range(required_fields) |-> plan[f]]

\* The plan handler in slot r writes to the plan collection in this step
PlanWrites(r) ==
    /\ req[r].kind = "plan" /\ req[r].pc \in {"store_plan", "route_store"}
    /\ req'[r] # req[r]
    /\ project_plans' # project_plans

\* Both plan requests have invoked the LLM at the same time
BothGenerate == \A r \in Reqs : req[r].kind = "plan" /\ req[r].pc = "llm"

\* C24: when plan requests for one project race, every store write leaves the
\* project's stored plan with the four content fields of the request that
\* wrote (so the last write wins, whole), and once the requests have completed
\* exactly one plan record exists for the project.
C24_LastWriteWins ==
    [][/\ \A r \in Reqs :
             PlanWrites(r)
                => ContentOf(PlanOf(project_plans', req[r].id)) = ContentOf(req[r].plan)
       /\ (nreq' = 2 /\ \A r \in Reqs : req'[r].pc = "idle")
             => Cardinality({i \in 1..Len(project_plans') :
                                project_plans'[i].project_id = "p1"}) = 1]_vars

\* The Synthesizer's call in slot r takes a step
SynthesizerSteps(r) == req[r].kind = "generate_call" /\ req'[r] # req[r]

\* C25: a call of generate_project_plan writes to the plan collection only in
\* its store step; it enters that step only from an LLM response that parsed
\* and holds all four required fields, and the store step is its last; so a
\* call that ends in a provider, parse or validation failure has written
\* nothing.
C25_StoreLast ==
    [][\A r \in Reqs :
          SynthesizerSteps(r)
             => /\ project_plans' # project_plans => req[r].pc = "store_plan"
                /\ req'[r].pc = "store_plan"
                      => /\ req[r].pc \in {"llm", "store_plan"}
                         /\ \A f \in Range(required_fields) : f \in DOMAIN req'[r].plan
                /\ (req[r].pc = "llm" /\ req'[r].pc = "store_plan")
                      => /\ hist'[Len(hist')].kind = "ok"
                         /\ SynthParse(hist'[Len(hist')].text).ok
                /\ req[r].pc = "store_plan" => req'[r].pc \in {"store_plan", "idle"}
                /\ (req[r].pc = "llm" /\ req'[r].pc = "idle")
                      => /\ project_plans' = project_plans
                         /\ "error" \in DOMAIN last'.result.body]_vars

\* A call of generate_project_plan on an empty store ended in a validation
\* failure after the LLM returned an object without three of the fields
C25_Witness ==
    /\ CallKind = "generate_call" /\ Failed
    /\ Body.error.text = "Missing required fields in plan"
    /\ Len(hist) >= 1 /\ hist[Len(hist)].kind = "ok"
    /\ project_plans = <<>>

\* The call in slot r had a failed attempt and waits for its next one
Retries(r) ==
    /\ req[r].pc = "llm" /\ req'[r].pc = "llm"
    /\ req'[r].calls = req[r].calls + 1

\* C26: the wait before the next attempt is positive and at most the maximum
\* wait, and after every failure but the first it is twice the wait before,
\* up to the maximum.
C26_Backoff ==
    [][\A r \in Reqs :
          Retries(r)
             => /\ req'[r].wait > 0
                /\ req'[r].wait <= wait_max
                /\ req[r].calls >= 1
                      => req'[r].wait = Min(2 * req[r].wait, wait_max)]_vars

\* The plan request in slot r is past the Synthesizer's store: it reaches the
\* route's own store only after that write was made
HasStored(q) == q.kind = "plan" /\ q.pc = "route_store"

\* C27: a plan request that answers 400 or 500 leaves the plan collection as
\* it was when the request came in: the step that answers writes nothing and
\* the request has written nothing before.
C27_ErrorWritesNothing ==
    [][\A r \in Reqs :
          (AnsweredAs(r, "plan") /\ last'.result.status \in {400, 500})
             => /\ project_plans' = project_plans
                /\ ~HasStored(req[r])]_vars

\* C28: in every reachable state, the project_id of every plan record is the
\* id of a record of the project collection.
C28_PlansHaveProjects ==
    \A i \in 1..Len(project_plans) : project_plans[i].project_id \in DOMAIN projects

\* The refinement in slot r writes to the plan collection in this step
RefinementWrites(r) ==
    /\ req[r].kind = "refine" /\ req[r].pc = "refine_store"
    /\ req'[r] # req[r]
    /\ project_plans' # project_plans

\* C29: at the moment a refinement writes, the stored plan of its project, if
\* there is one, holds as high_level_tasks the original tasks the refinement
\* was given, and every other field of it but updated_at is as the refinement
\* read it.
C29_NoStaleWrite ==
    [][\A r \in Reqs :
          (RefinementWrites(r) /\ find_one(project_plans, req[r].id) # 0)
             => LET stored == PlanOf(project_plans, req[r].id)
                IN /\ "high_level_tasks" \in DOMAIN stored
                   /\ stored.high_level_tasks = req[r].tasks
                   /\ \A f \in (DOMAIN stored) \ {"high_level_tasks", "updated_at"} :
                         f \in DOMAIN req[r].plan /\ req[r].plan[f] = stored[f]]_vars

\* C30: connect_to_mongo makes at most three verification attempts; when it
\* returns normally the store handle is set, and when it raises the handle is
\* not set.
C30_ConnectOutcome ==
    [][\A r \in Reqs :
          /\ req'[r].kind = "connect" => req'[r].calls <= MaxConnectAttempts
          /\ AnsweredAs(r, "connect")
                => /\ last'.kind = "connect"
                   /\ last'.calls <= MaxConnectAttempts
                   /\ IF last'.result.raised THEN ~dbReady' ELSE dbReady']_vars

====
